---- MODULE Spec2Model ----
(***************************************************************************)
(* Model of the moon-phase crate (src/src/lib.rs).                         *)
(*                                                                         *)
(* The crate is a set of pure entry points: MoonPhase::from_secs,          *)
(* MoonPhase::from_secs_float, MoonPhase::new (chrono and SystemTime       *)
(* builds) and Zodiac::from_long.  The state is the last call made and     *)
(* the value it returned (or the fact that it panicked).                   *)
(*                                                                         *)
(* Number representation.  The code computes in f64; the model computes    *)
(* in exact decimal fixed point:                                           *)
(*   - a count of seconds is [s, us]  = s + us/10^6, 0 <= us < 10^6;       *)
(*   - a Julian date is [day, sec, usec] = day + (sec + usec/10^6)/86400;  *)
(*   - phase fractions, angles in radians, degrees, earth radii and the    *)
(*     illuminated fraction are integers in units of 1/SCALE.              *)
(* Values are cut to the grid by truncation toward zero, so that signs     *)
(* behave as they do in the reals.                                         *)
(***************************************************************************)
EXTENDS Integers, Sequences, FiniteSets

VARIABLES entry, arg, ret, panicked

vars == <<entry, arg, ret, panicked>>

-----------------------------------------------------------------------------
(* Data model *)

\* Microseconds per second.
MICRO == 10^6

\* 86400. : seconds per day, the divisor of julian_date_from_seconds.
SECS_PER_DAY == 86400

\* enum Phase, in declaration order.
Phases == <<"New", "WaxingCrescent", "FirstQuarter", "WaxingGibbous",
            "Full", "WainingGibbous", "LastQuarter", "WaningCrescent">>

\* enum Zodiac, in declaration order.
Zodiacs == <<"Pisces", "Aries", "Taurus", "Gemini", "Cancer", "Leo", "Virgo",
             "Libra", "Scorpio", "Sagittarius", "Capricorn", "Aquarius">>

Range(seq) == {seq[i] : i \in 1..Len(seq)}

\* An f64 count of seconds.
Seconds == [s : Int, us : 0..(MICRO - 1)]

\* An f64 Julian date.
JulianDate == [day : Int, sec : 0..(SECS_PER_DAY - 1), usec : 0..(MICRO - 1)]

\* chrono::DateTime: the timestamp and the microseconds past it.
DateTime == [secs : Int, micros : 0..(MICRO - 1)]

\* struct MoonPhase.
MoonPhase ==
    [j_date : JulianDate, phase : Int, age : Int, fraction : Int,
     distance : Int, latitude : Int, longitude : Int,
     phase_name : Range(Phases), zodiac_name : Range(Zodiacs)]

-----------------------------------------------------------------------------
(* Fixed-point helpers *)

\* Resolution of the fixed-point grid (units per 1.0).
SCALE == 10^4

Abs(x) == IF x < 0 THEN -x ELSE x

\* Quotient truncated toward zero (b > 0).
TruncDiv(a, b) == IF a >= 0 THEN a \div b ELSE -((-a) \div b)

\* f64 `%`: remainder with the sign of the dividend (b > 0).
Rem(a, b) == a - b * TruncDiv(a, b)

\* f64::round on a value in 1/SCALE units: nearest integer, ties away from zero.
Round(x) == IF x >= 0 THEN (2 * x + SCALE) \div (2 * SCALE)
                      ELSE -((2 * (-x) + SCALE) \div (2 * SCALE))

\* Product of two fixed-point values.
Mul(a, b) == TruncDiv(a * b, SCALE)

\* `x as usize` for a float holding an integer: negative values saturate to 0.
AsUsize(x) == IF x < 0 THEN 0 ELSE x

-----------------------------------------------------------------------------
(* Constants of the crate *)

\* TAU = 6.28318530717958647692528676655900577 radians.
TAU == 62832

\* 2440587.5 : the Julian date of the Unix epoch (1970-01-01T00:00Z).
UNIX_EPOCH_JD == [day |-> 2440587, sec |-> 43200, usec |-> 0]

\* Periods, in seconds and microseconds: days x 86400.
\* 29.530588853 d = 2551442.8768992 s
MOON_SYNODIC_PERIOD == [s |-> 2551442, us |-> 876899]
\* 27.55454988 d = 2380713.109632 s
MOON_DISTANCE_PERIOD == [s |-> 2380713, us |-> 109632]
\* 27.212220817 d = 2351135.8785888 s
MOON_LATITUDE_PERIOD == [s |-> 2351135, us |-> 878588]
\* 27.321582241 d = 2360584.7056224 s
MOON_LONGITUDE_PERIOD == [s |-> 2360584, us |-> 705622]

\* Reference offsets, as Julian dates (.26 d = 22464 s, .2 d = 17280 s,
\* .8 d = 69120 s).
MOON_SYNODIC_OFFSET == [day |-> 2451550, sec |-> 22464, usec |-> 0]
MOON_DISTANCE_OFFSET == [day |-> 2451562, sec |-> 17280, usec |-> 0]
MOON_LATITUDE_OFFSET == [day |-> 2451565, sec |-> 17280, usec |-> 0]
MOON_LONGITUDE_OFFSET == [day |-> 2451555, sec |-> 69120, usec |-> 0]

\* The synodic period in 1/1000 day, the factor of `age`.
SynodicMilliDays == (10 * MOON_SYNODIC_PERIOD.s) \div 864

\* Ecliptic angles of the zodiac constellations, in 1/SCALE degree.
ZODIAC_ANGLES == <<331800, 511600, 934400, 1194800, 1353000, 1733400,
                   2241700, 2425700, 2712600, 3024900, 3117200, 3485800>>

-----------------------------------------------------------------------------
(* Arithmetic on seconds: j_date - OFFSET, and fract of a quotient *)

\* s + us/10^6 with the microseconds carried into 0 .. 10^6 - 1.
Norm(s, us) == [s |-> s + us \div MICRO, us |-> us % MICRO]

\* a >= b for two normalised counts of seconds.
Geq(a, b) == a.s > b.s \/ (a.s = b.s /\ a.us >= b.us)

\* (j_date - offset), in seconds.
SecondsSince(j_date, offset) ==
    Norm((j_date.day - offset.day) * SECS_PER_DAY + j_date.sec - offset.sec,
         j_date.usec - offset.usec)

\* Quotient and remainder of a >= 0 by the period p (p.s + 1 > p, and a is
\* far below p^2, so the estimate is short by one at most).
DivMod(a, p) ==
    LET q0 == a.s \div (p.s + 1)
        r0 == Norm(a.s - q0 * p.s, a.us - q0 * p.us)
    IN  IF Geq(r0, p)
        THEN [q |-> q0 + 1, r |-> Norm(r0.s - p.s, r0.us - p.us)]
        ELSE [q |-> q0, r |-> r0]

\* The first k decimal digits of r / p, for 0 <= r < p.
RECURSIVE Digits(_, _, _)
Digits(r, p, k) ==
    IF k = 0 THEN 0
    ELSE LET dm == DivMod(Norm(10 * r.s, 10 * r.us), p)
         IN  dm.q * 10^(k - 1) + Digits(dm.r, p, k - 1)

\* (d / p).fract() for a signed count of seconds d: the fractional part with
\* the sign of d (f64::fract truncates toward zero), in 1/SCALE.
Fract(d, p) ==
    LET neg == d.s < 0
        a   == IF ~neg THEN d
               ELSE IF d.us = 0 THEN [s |-> -d.s, us |-> 0]
               ELSE [s |-> -d.s - 1, us |-> MICRO - d.us]
        f   == Digits(DivMod(a, p).r, p, 4)
    IN  IF neg THEN -f ELSE f

-----------------------------------------------------------------------------
(* f64::sin and f64::cos on angles in 1/SCALE radian *)

\* Taylor polynomials on [0, pi/4].
SinPoly(y) ==
    LET y2 == Mul(y, y)
        y3 == Mul(y2, y)
        y5 == Mul(y3, y2)
        y7 == Mul(y5, y2)
    IN  y - TruncDiv(y3, 6) + TruncDiv(y5, 120) - TruncDiv(y7, 5040)

CosPoly(y) ==
    LET y2 == Mul(y, y)
        y4 == Mul(y2, y2)
        y6 == Mul(y4, y2)
    IN  SCALE - TruncDiv(y2, 2) + TruncDiv(y4, 24) - TruncDiv(y6, 720)

\* sin on [0, pi/2].
SinQuadrant(y) ==
    IF 4 * y <= TAU \div 2 THEN SinPoly(y) ELSE CosPoly(TAU \div 4 - y)

\* sin on [0, TAU).
SinTurn(x) ==
    IF x <= TAU \div 4 THEN SinQuadrant(x)
    ELSE IF x <= TAU \div 2 THEN SinQuadrant(TAU \div 2 - x)
    ELSE IF x <= 3 * (TAU \div 4) THEN -SinQuadrant(x - TAU \div 2)
    ELSE -SinQuadrant(TAU - x)

Sin(x) == IF x >= 0 THEN SinTurn(x % TAU) ELSE -SinTurn((-x) % TAU)

Cos(x) == Sin(Abs(x) + TAU \div 4)

-----------------------------------------------------------------------------
(* Zodiac *)

\* The match on the index found by find_map; indices past 11 are the
\* unimplemented!() arm.
ZodiacOfIndex(i) == IF i \in 0..11 THEN Zodiacs[i + 1] ELSE "unimplemented!"

\* Mutant of from_long: the comparison written `long <= *angle`.
from_long_inclusive(long) ==
    LET found == {i \in 0..(Len(ZODIAC_ANGLES) - 1) : long <= ZODIAC_ANGLES[i + 1]}
    IN  IF found = {} THEN "Pisces"
        ELSE ZodiacOfIndex(CHOOSE i \in found : \A k \in found : i <= k)

\* Zodiac::from_long: the first angle of ZODIAC_ANGLES that long is below,
\* Pisces when there is none.
from_long(long) ==
    LET found == {i \in 0..(Len(ZODIAC_ANGLES) - 1) : long < ZODIAC_ANGLES[i + 1]}
    IN  IF found = {} THEN "Pisces"
        ELSE ZodiacOfIndex(CHOOSE i \in found : \A k \in found : i <= k)

-----------------------------------------------------------------------------
(* MoonPhase *)

\* Mutant of julian_date_from_seconds: the epoch taken as 2440588.0 (the
\* Julian day number of 1970-01-01, half a day late).
julian_date_from_seconds_noon(secs) ==
    [day |-> UNIX_EPOCH_JD.day + 1 + secs.s \div SECS_PER_DAY,
     sec |-> secs.s % SECS_PER_DAY,
     usec |-> secs.us]

\* secs / 86400. + 2440587.5
julian_date_from_seconds(secs) ==
    LET t == secs.s + UNIX_EPOCH_JD.sec
    IN  [day |-> UNIX_EPOCH_JD.day + t \div SECS_PER_DAY,
         sec |-> t % SECS_PER_DAY,
         usec |-> secs.us]

\* DateTime::timestamp_micros: whole seconds x 10^6 + microseconds, held as
\* the two base-10^6 limbs of the i64.
timestamp_micros(time) == [hi |-> time.secs, lo |-> time.micros]

\* Mutant of julian_date_chrono: timestamp_subsec_micros() in place of
\* timestamp_micros(), which loses the whole seconds.
julian_date_chrono_subsec(time) ==
    julian_date_from_seconds([s |-> 0, us |-> timestamp_micros(time).lo])

\* julian_date, chrono build: timestamp_micros() as f64 / 1_000_000.0
julian_date_chrono(time) ==
    LET m    == timestamp_micros(time)
        secs == [s |-> m.hi, us |-> m.lo]
    IN  julian_date_from_seconds(secs)

\* julian_date, SystemTime build: duration_since(UNIX_EPOCH) is Ok(duration)
\* from the epoch on and Err(earlier) before it, earlier.duration() being the
\* distance to the epoch; time is the signed offset from the epoch.
julian_date_systemtime(time) ==
    LET earlier == Norm(-time.s, -time.us)
        secs    == IF time.s >= 0 THEN time
                   ELSE Norm(-earlier.s, -earlier.us)
    IN  julian_date_from_seconds(secs)

\* Mutant of phase_mod: the negative remainder left as it is, which
\* `as usize` then saturates to 0.
phase_mod_negative(phase) == Rem(Round(phase * 8), 8)

\* Mutant of phase_mod: the `% 8.` left out.
phase_mod_unreduced(phase) ==
    LET m == Round(phase * 8)
    IN  IF m < 0 THEN m + 8 ELSE m

\* phase_mod: (phase * 8.).round() % 8., plus 8 when negative.
phase_mod(phase) ==
    LET m == Rem(Round(phase * 8), 8)
    IN  IF m < 0 THEN m + 8 ELSE m

\* The match on phase_mod as usize; anything past 7 is the panic! arm.
PhaseOfIndex(i) == IF i \in 0..7 THEN Phases[i + 1] ELSE "panic!"

\* The fraction of the illuminated disk: (1. - (TAU * phase)).cos() / 2.
fraction_of(phase) == TruncDiv(Cos(SCALE - Mul(TAU, phase)), 2)

\* The ecliptic longitude: the sum of the four terms, % 360.
longitude_of(long_phase, distance_phase_tau, phase_distance_tau_difference, phase_tau) ==
    Rem(360 * long_phase
          + TruncDiv(63 * Sin(distance_phase_tau), 10)
          + TruncDiv(13 * Sin(phase_distance_tau_difference), 10)
          + TruncDiv(7 * Sin(phase_tau), 10),
        360 * SCALE)

\* MoonPhase::_new
_new(j_date) ==
    LET phase == Fract(SecondsSince(j_date, MOON_SYNODIC_OFFSET), MOON_SYNODIC_PERIOD)
        age   == TruncDiv(phase * SynodicMilliDays, SCALE)
        fraction == fraction_of(phase)
        phase_name == PhaseOfIndex(AsUsize(phase_mod(phase)))
        distance_phase ==
            Fract(SecondsSince(j_date, MOON_DISTANCE_OFFSET), MOON_DISTANCE_PERIOD)
        distance_phase_tau == Mul(TAU, distance_phase)
        phase_tau == Mul(2 * TAU, phase)
        phase_distance_tau_difference == phase_tau - distance_phase_tau
        distance == 604 * (SCALE \div 10)
                      - TruncDiv(33 * Cos(distance_phase_tau), 10)
                      - TruncDiv(6 * Cos(phase_distance_tau_difference), 10)
                      - TruncDiv(5 * Cos(phase_tau), 10)
        lat_phase ==
            Fract(SecondsSince(j_date, MOON_LATITUDE_OFFSET), MOON_LATITUDE_PERIOD)
        latitude == TruncDiv(51 * Sin(Mul(TAU, lat_phase)), 10)
        long_phase ==
            Fract(SecondsSince(j_date, MOON_LONGITUDE_OFFSET), MOON_LONGITUDE_PERIOD)
        longitude == longitude_of(long_phase, distance_phase_tau,
                                  phase_distance_tau_difference, phase_tau)
        zodiac_name == from_long(longitude)
    IN  [j_date |-> j_date,
         phase |-> phase,
         age |-> age,
         fraction |-> fraction,
         distance |-> distance,
         latitude |-> latitude,
         longitude |-> longitude,
         phase_name |-> phase_name,
         zodiac_name |-> zodiac_name]

\* MoonPhase::from_secs_float
from_secs_float(secs) == _new(julian_date_from_seconds(secs))

\* MoonPhase::from_secs: `secs as f64`, then from_secs_float.
from_secs(secs) == from_secs_float([s |-> secs, us |-> 0])

\* MoonPhase::new, chrono build.
new_chrono(time) == _new(julian_date_chrono(time))

\* MoonPhase::new, SystemTime build.
new_systemtime(time) == _new(julian_date_systemtime(time))

-----------------------------------------------------------------------------
(* Inputs *)

\* Instants of the crate's phase_detection test, in epoch seconds.
TestSecs == {915245340, 932461200, 947182380, 947856840, 948429600,
             949046160, 977764860, 1641148380, 1642290540, 1642291200,
             1642463280, 1642550340, 1642610700}

\* Epoch seconds of the reference new moon, Julian date MOON_SYNODIC_OFFSET.
ReferenceSecs ==
    (MOON_SYNODIC_OFFSET.day - UNIX_EPOCH_JD.day) * SECS_PER_DAY
      + MOON_SYNODIC_OFFSET.sec - UNIX_EPOCH_JD.sec

\* A sixteenth of the synodic period, in whole seconds: the odd multiples
\* lie next to the boundaries between two phase names.
SixteenthSecs == MOON_SYNODIC_PERIOD.s \div 16

\* Sixteenths of a cycle on each side of the reference new moon.
MaxSixteenths == 20

\* Tropical years (365 d 5 h 48 min 46 s) around the Unix epoch:
\* 1970 - MaxYears .. 1970 + 2 MaxYears.
MaxYears == 12

\* Sub-second parts tried, in steps of 1/8 second.
MaxEighths == 1

NearReferenceSecs ==
    {ReferenceSecs + k * SixteenthSecs : k \in -MaxSixteenths..MaxSixteenths}

YearSecs ==
    {k * (365 * SECS_PER_DAY + 20926) : k \in -MaxYears..(2 * MaxYears)}

\* i64 arguments of from_secs.
IntSecs == TestSecs \cup NearReferenceSecs \cup YearSecs

Micros == {k * (MICRO \div 8) : k \in 0..MaxEighths}

\* Instants at which the f64 quotient (j_date - MOON_SYNODIC_OFFSET) /
\* MOON_SYNODIC_PERIOD is exactly -n - 3/16, so that phase is -0.1875, on the
\* boundary between two phase names: 541024651.033589 and 5221646.884757.
HalfwaySecs == {[s |-> 541024651, us |-> 33589], [s |-> 5221646, us |-> 884757]}

\* f64 arguments of from_secs_float, and SystemTime offsets from the epoch.
FloatSecs == [s : IntSecs, us : Micros] \cup HalfwaySecs

\* DateTime arguments of new (chrono build).
DateTimes == [secs : IntSecs, micros : Micros]

\* f64 arguments of Zodiac::from_long, in 1/SCALE degree: each angle of the
\* table, the value just below and just above it, and the ends of the range.
Longitudes ==
    {ZODIAC_ANGLES[i] + d : i \in 1..Len(ZODIAC_ANGLES), d \in {-1, 0, 1}}
      \cup {d * SCALE : d \in {-360, -90, -1, 0, 1, 359, 360, 361, 720}}
      \cup {-1, 360 * SCALE - 1}

-----------------------------------------------------------------------------
(* The state machine: a single-threaded caller that is either between     *)
(* calls or holds what the last call returned; one action per public entry *)
(* point.                                                                  *)

NoValue == [none |-> TRUE]

Init ==
    /\ entry = "none"
    /\ arg = NoValue
    /\ ret = NoValue
    /\ panicked = FALSE

\* A call of _new unwinds when it reaches the panic! arm of the phase match
\* or the unimplemented!() arm of Zodiac::from_long.
Panics(moon_phase) ==
    \/ moon_phase.phase_name = "panic!"
    \/ moon_phase.zodiac_name = "unimplemented!"

CallFromSecs ==
    /\ entry = "none"
    /\ \E secs \in IntSecs :
           LET moon_phase == from_secs(secs)
           IN  /\ entry' = "from_secs"
               /\ arg' = secs
               /\ panicked' = Panics(moon_phase)
               /\ ret' = IF panicked' THEN NoValue ELSE moon_phase

CallFromSecsFloat ==
    /\ entry = "none"
    /\ \E secs \in FloatSecs :
           LET moon_phase == from_secs_float(secs)
           IN  /\ entry' = "from_secs_float"
               /\ arg' = secs
               /\ panicked' = Panics(moon_phase)
               /\ ret' = IF panicked' THEN NoValue ELSE moon_phase

CallNewChrono ==
    /\ entry = "none"
    /\ \E time \in DateTimes :
           LET moon_phase == new_chrono(time)
           IN  /\ entry' = "new_chrono"
               /\ arg' = time
               /\ panicked' = Panics(moon_phase)
               /\ ret' = IF panicked' THEN NoValue ELSE moon_phase

CallNewSystemTime ==
    /\ entry = "none"
    /\ \E time \in FloatSecs :
           LET moon_phase == new_systemtime(time)
           IN  /\ entry' = "new_systemtime"
               /\ arg' = time
               /\ panicked' = Panics(moon_phase)
               /\ ret' = IF panicked' THEN NoValue ELSE moon_phase

CallFromLong ==
    /\ entry = "none"
    /\ \E long \in Longitudes :
           LET zodiac == from_long(long)
           IN  /\ entry' = "from_long"
               /\ arg' = long
               /\ panicked' = (zodiac = "unimplemented!")
               /\ ret' = IF panicked' THEN NoValue ELSE zodiac

\* The caller is done with the value returned (MoonPhase and Zodiac are Copy
\* values without a destructor) and is free to call again; a caller that
\* panicked has unwound and calls nothing more.
Drop ==
    /\ entry # "none"
    /\ ~panicked
    /\ entry' = "none"
    /\ arg' = NoValue
    /\ ret' = NoValue
    /\ UNCHANGED panicked

Next ==
    \/ CallFromSecs
    \/ CallFromSecsFloat
    \/ CallNewChrono
    \/ CallNewSystemTime
    \/ CallFromLong
    \/ Drop

Spec == Init /\ [][Next]_vars

-----------------------------------------------------------------------------
(* Properties *)

\* The last call returned a MoonPhase.
ReturnedMoonPhase ==
    /\ entry \in {"from_secs", "from_secs_float", "new_chrono", "new_systemtime"}
    /\ ~panicked

\* The instant of the last call, as a count of seconds since the Unix epoch.
SecsOfCall ==
    CASE entry = "from_secs" -> [s |-> arg, us |-> 0]
      [] entry = "new_chrono" -> [s |-> arg.secs, us |-> arg.micros]
      [] OTHER -> arg

\* C1: the fraction field equals (1 - cos(2 pi phase)) / 2, so it lies in
\* [0,1], is 0 at phase 0 (new moon) and 1 at phase 0.5 (full moon).
C1_FractionIlluminated ==
    ReturnedMoonPhase =>
        /\ ret.fraction = TruncDiv(SCALE - Cos(Mul(TAU, ret.phase)), 2)
        /\ ret.fraction >= 0
        /\ ret.fraction <= SCALE
        /\ (ret.phase = 0 => ret.fraction = 0)
        /\ (ret.phase = SCALE \div 2 => ret.fraction = SCALE)

\* C2: the longitude field lies in [0,360), also for dates before the
\* longitude reference offset.
C2_LongitudeRange ==
    ReturnedMoonPhase => (ret.longitude >= 0 /\ ret.longitude < 360 * SCALE)

\* The table of the phase_detection test: epoch seconds and the expected
\* Phase variant number.
C3_Expected ==
    {<<915245340, 4>>, <<932461200, 2>>, <<947182380, 0>>, <<947856840, 2>>,
     <<948429600, 4>>, <<949046160, 6>>, <<977764860, 0>>, <<1641148380, 0>>,
     <<1642290540, 3>>, <<1642291200, 4>>, <<1642463280, 4>>,
     <<1642550340, 4>>, <<1642610700, 5>>}

\* round(8 frac(d / period)) mod 8, 8 added when negative, for the signed
\* distance d (seconds) from the reference new moon, in whole sixteenths of
\* a cycle: h complete sixteenths round to (h + 1) \div 2 eighths, away from
\* zero on a tie.
C3_Bucket(d) ==
    LET neg == d.s < 0
        a   == IF ~neg THEN d ELSE Norm(-d.s, -d.us)
        r   == DivMod(a, MOON_SYNODIC_PERIOD).r
        h   == DivMod(Norm(16 * r.s, 16 * r.us), MOON_SYNODIC_PERIOD).q
        m   == (h + 1) \div 2
    IN  IF neg THEN (8 - m) % 8 ELSE m % 8

\* C3: from_secs_float(s).phase_name is variant number
\* round(8 frac((s/86400 + 2440587.5 - 2451550.26) / 29.530588853)) mod 8
\* (8 added when negative) in the order New .. WaningCrescent, before and
\* after the reference new moon, and the test table's instants give the
\* phases the table expects.
C3_PhaseName ==
    (entry = "from_secs_float" /\ ~panicked) =>
        /\ ret.phase_name =
             Phases[C3_Bucket(Norm(arg.s - ReferenceSecs, arg.us)) + 1]
        /\ \A e \in C3_Expected :
               (arg.s = e[1] /\ arg.us = 0) => ret.phase_name = Phases[e[2] + 1]

C3_Witness ==
    /\ entry = "from_secs_float"
    /\ arg = [s |-> 915245340, us |-> 0]
    /\ ret.phase < 0
    /\ ret.phase_name = "Full"

\* The threshold table as the specification lists it, in 1/100 degree.
C4_Table ==
    <<<<3318, "Pisces">>, <<5116, "Aries">>, <<9344, "Taurus">>,
      <<11948, "Gemini">>, <<13530, "Cancer">>, <<17334, "Leo">>,
      <<22417, "Virgo">>, <<24257, "Libra">>, <<27126, "Scorpio">>,
      <<30249, "Sagittarius">>, <<31172, "Capricorn">>, <<34858, "Aquarius">>>>

\* C4: Zodiac::from_long returns the variant of the first threshold strictly
\* greater than long, Pisces when no threshold exceeds long; a longitude
\* equal to a threshold belongs to the next sector.
C4_FromLong ==
    (entry = "from_long" /\ ~panicked) =>
        /\ ret \in Range(Zodiacs)
        /\ \A i \in 1..12 :
               (/\ arg < C4_Table[i][1] * (SCALE \div 100)
                /\ (i > 1 => arg >= C4_Table[i - 1][1] * (SCALE \div 100)))
                  => ret = C4_Table[i][2]
        /\ (arg >= C4_Table[12][1] * (SCALE \div 100) => ret = "Pisces")

C4_Witness ==
    /\ entry = "from_long"
    /\ arg = 3318 * (SCALE \div 100)
    /\ ret = "Aries"

C6_PhaseRange ==
    ReturnedMoonPhase => (ret.phase >= 0 /\ ret.phase < SCALE)

\* C7: no call panics: the phase bucket is one of 0..7 and the zodiac index
\* one of 0..11, so a MoonPhase (or a Zodiac) is always returned.
C7_NoPanic ==
    /\ ~panicked
    /\ ReturnedMoonPhase => ret \in MoonPhase
    /\ entry = "from_long" => ret \in Range(Zodiacs)

C7_Witness ==
    /\ entry = "from_secs"
    /\ arg < 0
    /\ ret \in MoonPhase
    /\ ret.phase < 0
    /\ ret.longitude < 0

\* C8: the j_date field of from_secs / from_secs_float is
\* s / 86400 + 2440587.5, that is 86400 (j_date - 2440587.5) = s, for
\* negative s too; from_secs(0).j_date = 2440587.5.
C8_JulianDate ==
    (entry \in {"from_secs", "from_secs_float"} /\ ~panicked) =>
        /\ ret.j_date \in JulianDate
        /\ 86400 * (ret.j_date.day - 2440587) + ret.j_date.sec - 43200
             = SecsOfCall.s
        /\ ret.j_date.usec = SecsOfCall.us
        /\ (SecsOfCall = [s |-> 0, us |-> 0] =>
               ret.j_date = [day |-> 2440587, sec |-> 43200, usec |-> 0])

C8_Witness ==
    /\ entry = "from_secs"
    /\ arg < 0
    /\ arg % 86400 # 0
    /\ ret.j_date.day < 2440587

\* C9: for a date before the reference offset, with signed phase fraction
\* p in (-1,0), the Phase variant selected is the one selected for the
\* equivalent non-negative fraction p + 1.
C9_SameNameBothSides ==
    (ReturnedMoonPhase /\ ret.phase < 0) =>
        ret.phase_name = PhaseOfIndex(AsUsize(phase_mod(ret.phase + SCALE)))

\* The sector of the threshold table that holds a longitude of [0,360).
C10_Sector(long) ==
    IF long >= C4_Table[12][1] * (SCALE \div 100) THEN "Pisces"
    ELSE C4_Table[CHOOSE i \in 1..12 :
                      /\ long < C4_Table[i][1] * (SCALE \div 100)
                      /\ (i > 1 => long >= C4_Table[i - 1][1] * (SCALE \div 100))][2]

\* C10: zodiac_name is the constellation whose sector holds the computed
\* longitude taken modulo 360 into [0,360), whatever the sign of the sum.
C10_ZodiacOfLongitude ==
    ReturnedMoonPhase =>
        ret.zodiac_name = C10_Sector(ret.longitude % (360 * SCALE))

====
